---- MODULE Spec2Model ----
\* Model of main.py: the Gmail watcher thread (imap_idle_worker), the Telegram
\* command handlers (/now, /now_force, /reset_state) and the cursor store
\* (_last_seen, _state_lock, state.json written through state.json.tmp).
EXTENDS Integers, Sequences, FiniteSets, TLC

\* ---------------------------------------------------------------- bounds
MaxMsgs == 2        \* messages that ever arrive in the mailbox
MaxTick == 1        \* minutes the clock advances
MaxCrash == 1       \* process terminations followed by a restart
MaxFileUid == 2     \* largest last_uid of the state files the process may find
MaxBlocks == 3      \* blocks of lines an e-mail text is made of
MaxLinks == 2       \* <a> tags of an e-mail, and distinct project links

\* ------------------------------------------------------ program constants
MAX_EMAIL_AGE_MINUTES == 600
FetchTail == 80
BackoffFloor == 5
BackoffCeil == 60
MAX_ITEMS == 10
ScanWindow == 20

\* Clock value (whole minutes) at process start; messages may be older.
StartClock == MAX_EMAIL_AGE_MINUTES + 1
\* Ages (minutes before the arrival instant) of a message's INTERNALDATE.
ArrivalAges == {0, MAX_EMAIL_AGE_MINUTES}

VARIABLES
    mailbox,      \* set of <<dt, uid>> of the messages matching RAW_QUERY
    clock,        \* datetime.now(timezone.utc), in minutes
    _last_seen,   \* the module global: <<>> is None, else <<dt, uid>>
    _state_lock,  \* "free", or the context holding it: "watcher" / "handler"
    fs,           \* [canon |-> STATE_FILE content, tmp |-> STATE_FILE.tmp content]
    sv,           \* position inside _save_state: "none", "opened", "written"
    svState,      \* the dict passed to _save_state
    wpc,          \* position of imap_idle_worker
    backoff,      \* local of imap_idle_worker
    responses,    \* last result of c.idle_check(): TRUE iff non-empty
    pushed,       \* the server owes the watcher's session an EXISTS response
    wItems,       \* local items of the drain
    wLastSeen,    \* local last_seen of the drain
    wNew,         \* local new_items of the drain
    wIdx,         \* index of the for loop over new_items
    hcmd,         \* command being handled: "none", "now", "now_force", "reset_state",
                  \* "status"
    hpc,          \* position of the handler
    hKey,         \* (dt, uid) of items[-1] in the handler
    hItems,       \* local items of /reset_state, as a set of keys
    sent,         \* history: <<key, by>> handed to delivery by the watcher or /now
                  \* since the process started
    sentOld,      \* history: keys the watcher dispatched before the last restart
    epoch,        \* history: number of restarts so far
    initSeen,     \* history: candidates the cursor initialization of this run saw
    drained,      \* history: candidate set of the last drain that ran to its end
    boot,         \* the module body: "import" before lines 157-158 have run,
                  \* "running" after them, "raised" when they raised
    parts,        \* the e-mail handed to parse_kwork_email
    anchors,      \* the href values of the <a> tags of parts["html"], in order
    ppc,          \* position inside parse_kwork_email / compose_message
    scan,         \* the index i of the while loop of parse_from_text (from 1)
    projects,     \* the list projects of parse_from_text
    links,        \* the list links of parse_kwork_email
    message       \* what compose_message returned

vars == <<mailbox, clock, _last_seen, _state_lock, fs, sv, svState, wpc, backoff,
          responses, pushed, wItems, wLastSeen, wNew, wIdx, hcmd, hpc, hKey, hItems,
          sent, sentOld, epoch, initSeen, drained,
          boot, parts, anchors, ppc, scan, projects, links, message>>

wLocals == <<wItems, wLastSeen, wNew, wIdx>>
hLocals == <<hcmd, hpc, hKey, hItems>>
history == <<sent, sentOld, epoch, initSeen, drained>>
store == <<_last_seen, _state_lock, fs, sv, svState>>
world == <<mailbox, clock>>
parsing == <<parts, anchors, ppc, scan, projects, links, message>>
aside == <<boot, parsing>>

None == <<>>

\* ------------------------------------------------------------ pure helpers

\* Python's tuple comparison (dt, uid) <= last_seen.
KeyLE_TimestampOnly(a, b) == a[1] <= b[1]
KeyLE_Strict(a, b) == a[1] < b[1] \/ (a[1] = b[1] /\ a[2] < b[2])
KeyLE(a, b) == a[1] < b[1] \/ (a[1] = b[1] /\ a[2] <= b[2])

\* _is_fresh(dt), with now the value of datetime.now(timezone.utc).
IsFresh_Exclusive(dt, now) == dt > now - MAX_EMAIL_AGE_MINUTES
IsFresh(dt, now) == dt >= now - MAX_EMAIL_AGE_MINUTES

\* items.sort(key=lambda x: (x[0], x[1]))
SortsBefore(a, b) == a[1] < b[1] \/ (a[1] = b[1] /\ a[2] <= b[2])

RECURSIVE SortKeys(_)
SortKeys(S) ==
    IF S = {} THEN <<>>
    ELSE LET m == CHOOSE x \in S : \A y \in S : SortsBefore(x, y)
         IN <<m>> \o SortKeys(S \ {m})

\* uids[-80:] of the ascending uid list returned by the search.
TailUids(S) == {k \in S : Cardinality({j \in S : j[2] > k[2]}) < FetchTail}

\* _fetch_candidates(c) on the mailbox content mb.
FetchCandidates(mb) == SortKeys(TailUids(mb))

Last(s) == s[Len(s)]
Range(s) == {s[i] : i \in 1..Len(s)}

\* dt.isoformat() / datetime.fromisoformat(): the decimal text of the minute count.
RECURSIVE isoformat(_)
isoformat(n) == IF n < 10 THEN <<n>> ELSE isoformat(n \div 10) \o <<n % 10>>

RECURSIVE fromisoformat(_)
fromisoformat(s) ==
    IF Len(s) = 1 THEN s[1]
    ELSE 10 * fromisoformat(SubSeq(s, 1, Len(s) - 1)) + s[Len(s)]

\* A text is a sequence of characters: the digits 0..9 and one other character.
NotADigit == 10
AllDigits(s) == s # <<>> /\ \A n \in 1..Len(s) : s[n] \in 0..9

\* JSON values: null, a number, a string, a non-empty list.
JNull == [t |-> "null", v |-> <<>>]
JNum(n) == [t |-> "num", v |-> <<n>>]
JStr(s) == [t |-> "str", v |-> s]
JList == [t |-> "list", v |-> <<0>>]

\* Python's truth value of a JSON value (`not dt_iso`).
Truthy(j) ==
    CASE j.t = "null" -> FALSE
      [] j.t = "num" -> j.v[1] # 0
      [] j.t = "str" -> j.v # <<>>
      [] OTHER -> TRUE

\* int(uid): defined for a number and for a string of digits, raises otherwise.
IntAccepts(j) == j.t = "num" \/ (j.t = "str" /\ AllDigits(j.v))
IntOf(j) == IF j.t = "num" THEN j.v[1] ELSE fromisoformat(j.v)

\* File contents. kind: "absent" (no file), "unreadable" (open raises), "partial"
\* (not valid JSON), "nonobject" (valid JSON, not an object), "json" (an object
\* with the values of its keys last_dt_iso and last_uid, null when missing).
Absent == [kind |-> "absent", last_dt_iso |-> JNull, last_uid |-> JNull]
Partial == [kind |-> "partial", last_dt_iso |-> JNull, last_uid |-> JNull]
Unreadable == [kind |-> "unreadable", last_dt_iso |-> JNull, last_uid |-> JNull]
NonObject == [kind |-> "nonobject", last_dt_iso |-> JNull, last_uid |-> JNull]

\* The dict built by _state_set_last_seen(dt, uid).
StateDict(k) ==
    [kind |-> "json", last_dt_iso |-> JStr(isoformat(k[1])), last_uid |-> JNum(k[2])]

\* _load_state() returns what json.load returned, or {} when anything raised;
\* st.get(...) at line 137 raises AttributeError on a value that is not a dict,
\* outside any try.
LoadRaises(content) == content.kind = "nonobject"

\* _state_get_last_seen() on the content of STATE_FILE, when it does not raise.
LoadLastSeen(content) ==
    IF content.kind # "json" THEN None
    ELSE LET dt_iso == content.last_dt_iso
             uid == content.last_uid
         IN IF ~Truthy(dt_iso) \/ uid.t = "null" THEN None
            ELSE IF dt_iso.t # "str" \/ ~AllDigits(dt_iso.v) \/ ~IntAccepts(uid) THEN None
            ELSE <<fromisoformat(dt_iso.v), IntOf(uid)>>

\* _save_state, step by step.
FsOpenTmp_InPlace(f) == [f EXCEPT !.canon = Partial]
FsOpenTmp(f) == [f EXCEPT !.tmp = Partial]
FsDump(f, state) == [f EXCEPT !.tmp = state]
FsReplace(f) == [f EXCEPT !.canon = f.tmp, !.tmp = Absent]
FsRemoveTmp(f) == [f EXCEPT !.tmp = Absent]

\* The filter loop of the drain (lines 495-501).
RECURSIVE FilterNew(_, _, _)
FilterNew(items, last_seen, now) ==
    IF items = <<>> THEN <<>>
    ELSE LET k == Head(items)
             rest == FilterNew(Tail(items), last_seen, now)
         IN IF ~IsFresh(k[1], now) THEN rest
            ELSE IF last_seen # None /\ KeyLE(k, last_seen) THEN rest
            ELSE <<k>> \o rest

\* backoff = min(backoff * 2, 60)
NextBackoff(b) == IF b * 2 < BackoffCeil THEN b * 2 ELSE BackoffCeil

\* ------------------------------------------------------------------ Init
\* No e-mail is being parsed.
NotParsing ==
    /\ parts = [html |-> FALSE, total |-> <<>>, lines |-> <<>>]
    /\ anchors = <<>>
    /\ ppc = "none"
    /\ scan = 0
    /\ projects = <<>>
    /\ links = <<>>
    /\ message = "none"

\* The threads and the mailbox when the process starts.
Started ==
    /\ mailbox = {}
    /\ clock = StartClock
    /\ _state_lock = "free"
    /\ sv = "none"
    /\ svState = Absent
    /\ wpc = "connecting"
    /\ backoff = BackoffFloor
    /\ responses = FALSE
    /\ pushed = FALSE
    /\ wItems = <<>> /\ wLastSeen = None /\ wNew = <<>> /\ wIdx = 0
    /\ hcmd = "none" /\ hpc = "none" /\ hKey = None /\ hItems = {}
    /\ sent = {}
    /\ sentOld = {}
    /\ epoch = 0
    /\ initSeen = {}
    /\ drained = {}

\* State after the module has been imported on a first run: no state file,
\* lines 157-158 have loaded the cursor from it.
Init ==
    /\ fs = [canon |-> Absent, tmp |-> Absent]
    /\ _last_seen = LoadLastSeen(Absent)
    /\ boot = "running"
    /\ Started
    /\ NotParsing

\* ------------------------------------------------- the start of the process
\* The state files the process may find: every kind of content, and objects
\* whose two values are missing, of the wrong type, malformed or well formed.
DtValues ==
    {JNull, JNum(0), JNum(1), JList, JStr(<<>>), JStr(<<NotADigit>>),
     JStr(isoformat(StartClock) \o <<NotADigit>>), JStr(isoformat(StartClock))}

UidValues ==
    {JNull, JList, JStr(<<>>), JStr(<<NotADigit>>)}
        \cup {JNum(u) : u \in 0..MaxFileUid}
        \cup {JStr(<<u>>) : u \in 0..MaxFileUid}

StateFiles ==
    {Absent, Unreadable, Partial, NonObject}
        \cup {[kind |-> "json", last_dt_iso |-> d, last_uid |-> u] :
                 d \in DtValues, u \in UidValues}

\* The process is about to run its module body with some state file in place.
LoadInit ==
    /\ fs \in [canon : StateFiles, tmp : {Absent}]
    /\ _last_seen = None
    /\ boot = "import"
    /\ Started
    /\ NotParsing

\* lines 157-158: with _state_lock: _last_seen = _state_get_last_seen()
ImportLoad ==
    /\ boot = "import"
    /\ IF LoadRaises(fs.canon)
       THEN boot' = "raised" /\ UNCHANGED _last_seen
       ELSE boot' = "running" /\ _last_seen' = LoadLastSeen(fs.canon)
    /\ UNCHANGED <<parsing, world, _state_lock, fs, sv, svState, wpc, backoff,
                   responses, pushed, wLocals, hLocals, history>>

LoadNext == ImportLoad

LoadSpec == LoadInit /\ [][LoadNext]_vars

\* ------------------------------------------------- the parser of an e-mail
\* Characters of the text the header regex captured as group(2): the digits
\* are 0..9 as before, the blanks are their code points.
Space == 32
NoBreakSpace == 160

\* line 249: what ([\d\s]+) may capture; <<>> stands for a text the regex does
\* not match.
TotalTexts ==
    {<<>>, <<1, Space, 8>>, <<1, NoBreakSpace, 8>>, <<Space>>}

\* line 255: .replace(" ", "")
RemoveSpaces(s) == SelectSeq(s, LAMBDA c : c # Space)

\* int() strips the white space around the digits
RECURSIVE Strip(_)
Strip(s) ==
    IF s = <<>> THEN s
    ELSE IF Head(s) \in {Space, NoBreakSpace} THEN Strip(Tail(s))
    ELSE IF s[Len(s)] \in {Space, NoBreakSpace} THEN Strip(SubSeq(s, 1, Len(s) - 1))
    ELSE s

\* line 255: int(m.group(2).replace(" ", "")) raises ValueError
TotalRaises(t) ==
    LET digits == Strip(RemoveSpaces(t))
    IN t # <<>> /\ (digits = <<>> \/ ~AllDigits(digits))

\* The lines of the text, by what the loop tests of them: "junk" is one of the
\* lines 270-278 skip, "cat" holds a ">", "price" matches price_re, "junk_gt"
\* is a skipped line holding a ">", "text" is any other non-empty line.
IsJunk(l) == l \in {"junk", "junk_gt"}
HasGt(l) == l \in {"cat", "junk_gt"}
IsPrice(l) == l = "price"

\* A run of plain lines so long that the window of its first line ends one line
\* short of the price line of a record that follows the run.
LongRun == [n \in 1..(ScanWindow - 2) |-> "text"]

Blocks ==
    {<<"text", "cat", "price">>, <<"text", "cat", "text", "price">>,
     <<"text", "price">>, <<"text", "cat">>, <<"junk_gt">>, LongRun}

RECURSIVE Texts(_)
Texts(n) ==
    IF n = 0 THEN {<<>>}
    ELSE LET shorter == Texts(n - 1)
         IN shorter \cup {t \o b : t \in shorter, b \in Blocks}

\* The href values an <a> tag may have: project links of kwork.ru, a project
\* link of another site, and a kwork.ru link that is no project link.
Hrefs ==
    {[kwork |-> TRUE, project |-> TRUE, id |-> n] : n \in 1..MaxLinks}
        \cup {[kwork |-> FALSE, project |-> TRUE, id |-> 1],
              [kwork |-> TRUE, project |-> FALSE, id |-> 1]}

RECURSIVE AnchorSeqs(_)
AnchorSeqs(n) ==
    IF n = 0 THEN {<<>>}
    ELSE LET shorter == AnchorSeqs(n - 1)
         IN shorter \cup {Append(a, h) : a \in shorter, h \in Hrefs}

\* extract_project_links_ordered
RECURSIVE extract_project_links_ordered(_)
extract_project_links_ordered(as) ==
    IF as = <<>> THEN <<>>
    ELSE LET urls == extract_project_links_ordered(SubSeq(as, 1, Len(as) - 1))
             href == as[Len(as)]
         IN IF ~href.kwork THEN urls
            ELSE IF href.project /\ href \notin Range(urls) THEN Append(urls, href)
            ELSE urls

\* lines 339-343; the url of a record is <<>> while the key is not set
AttachLinks_RepeatLast(ps, ls) ==
    IF ls # <<>> /\ ps # <<>>
    THEN [idx \in 1..Len(ps) |->
             [ps[idx] EXCEPT !.url = <<ls[IF idx <= Len(ls) THEN idx ELSE Len(ls)]>>]]
    ELSE ps

AttachLinks(ps, ls) ==
    IF ls # <<>> /\ ps # <<>>
    THEN [idx \in 1..Len(ps) |->
             IF idx <= Len(ls) THEN [ps[idx] EXCEPT !.url = <<ls[idx]>>] ELSE ps[idx]]
    ELSE ps

\* An e-mail is handed to parse_kwork_email; a text the header regex matches
\* has the lines of the header.
ParseInit ==
    /\ parts \in [html : BOOLEAN, total : TotalTexts, lines : Texts(MaxBlocks)]
    /\ parts.total # <<>> => parts.lines # <<>>
    /\ anchors = <<>>
    /\ ppc = "header"
    /\ scan = 0
    /\ projects = <<>>
    /\ links = <<>>
    /\ message = "none"
    /\ fs = [canon |-> Absent, tmp |-> Absent]
    /\ _last_seen = None
    /\ boot = "running"
    /\ Started

process == <<boot, world, store, wpc, backoff, responses, pushed, wLocals, hLocals,
             history>>

\* parse_from_text, lines 238-261: the header fields
PHeader ==
    /\ ppc = "header"
    /\ IF TotalRaises(parts.total)
       THEN ppc' = "raised" /\ UNCHANGED scan
       ELSE ppc' = "scan" /\ scan' = 1
    /\ UNCHANGED <<parts, anchors, projects, links, message, process>>

\* The lines the inner loop looks at from i: j < min(len(lines), i + 20)
PriceAt(ls, i) ==
    LET limit == IF Len(ls) < i + ScanWindow - 1 THEN Len(ls) ELSE i + ScanWindow - 1
    IN {j \in (i + 1)..limit : IsPrice(ls[j])}

\* one iteration of the while loop that leaves a title without price behind by
\* the whole window
PScan_SkipWindow ==
    /\ ppc = "scan"
    /\ scan <= Len(parts.lines)
    /\ LET ls == parts.lines
           title == ls[scan]
           category == scan + 1 <= Len(ls) /\ HasGt(ls[scan + 1])
           found == PriceAt(ls, scan)
       IN IF IsJunk(title)
          THEN scan' = scan + 1 /\ UNCHANGED projects
          ELSE IF category /\ found # {}
          THEN LET j == CHOOSE p \in found : \A q \in found : p <= q
               IN /\ projects' = Append(projects,
                                     [title |-> scan, category |-> scan + 1,
                                      price |-> j, url |-> <<>>])
                  /\ scan' = j + 1
          ELSE IF found = {}
          THEN scan' = scan + ScanWindow /\ UNCHANGED projects
          ELSE scan' = scan + 1 /\ UNCHANGED projects
    /\ UNCHANGED <<parts, anchors, ppc, links, message, process>>

\* parse_from_text, lines 265-327: one iteration of the while loop
PScan ==
    /\ ppc = "scan"
    /\ scan <= Len(parts.lines)
    /\ LET ls == parts.lines
           title == ls[scan]
           category == scan + 1 <= Len(ls) /\ HasGt(ls[scan + 1])
           found == PriceAt(ls, scan)
       IN IF IsJunk(title)
          THEN scan' = scan + 1 /\ UNCHANGED projects
          ELSE IF category /\ found # {}
          THEN LET j == CHOOSE p \in found : \A q \in found : p <= q
               IN /\ projects' = Append(projects,
                                     [title |-> scan, category |-> scan + 1,
                                      price |-> j, url |-> <<>>])
                  /\ scan' = j + 1
          ELSE scan' = scan + 1 /\ UNCHANGED projects
    /\ UNCHANGED <<parts, anchors, ppc, links, message, process>>

\* parse_from_text returns, line 329; parse_kwork_email goes on with the links
\* of the html part, or returns what the plain part gave
PReturn ==
    /\ ppc = "scan"
    /\ scan > Len(parts.lines)
    /\ ppc' = IF parts.html THEN "links" ELSE "compose"
    /\ UNCHANGED <<parts, anchors, scan, projects, links, message, process>>

\* parse_kwork_email, lines 338-343
PLinks ==
    /\ ppc = "links"
    /\ \E as \in AnchorSeqs(MaxLinks) :
          /\ anchors' = as
          /\ links' = extract_project_links_ordered(as)
          /\ projects' = AttachLinks(projects, extract_project_links_ordered(as))
    /\ ppc' = "compose"
    /\ UNCHANGED <<parts, scan, message, process>>

\* compose_message, lines 353 and 391-392: projects[:MAX_ITEMS], the notice if
\* that is empty
PCompose ==
    /\ ppc = "compose"
    /\ LET shown == SubSeq(projects, 1,
                           IF Len(projects) < MAX_ITEMS THEN Len(projects)
                           ELSE MAX_ITEMS)
       IN message' = IF shown = <<>> THEN "notice" ELSE "listing"
    /\ ppc' = "done"
    /\ UNCHANGED <<parts, anchors, scan, projects, links, process>>

ParseNext == PHeader \/ PScan \/ PReturn \/ PLinks \/ PCompose

ParseSpec == ParseInit /\ [][ParseNext]_vars

\* parse_kwork_email on an e-mail without html part, line 346: parse_from_text
\* runs on the plain part. The code is straight-line code of one thread: a step
\* that can be taken is taken.
PlainInit == ParseInit /\ ~parts.html

PlainNext == PHeader \/ PScan \/ PReturn \/ PCompose

PlainFairSpec == PlainInit /\ [][PlainNext]_vars /\ WF_vars(PlainNext)

\* ------------------------------------------------------- the environment
\* A message matching the query is stored in the folder. The server reports it
\* (EXISTS) to a session that has the folder selected: at once when the session
\* is in IDLE, else with the next command. A session opened later learns the
\* message count from SELECT and is sent nothing.
Arrive ==
    /\ Cardinality(mailbox) < MaxMsgs
    /\ \E age \in ArrivalAges :
         mailbox' = mailbox \cup {<<clock - age, Cardinality(mailbox) + 1>>}
    /\ pushed' = (pushed \/ wpc \notin {"connecting", "notify", "backoff"})
    /\ UNCHANGED <<aside, clock, store, wpc, backoff, responses, wLocals, hLocals,
                   history>>

Tick ==
    /\ clock < StartClock + MaxTick
    /\ clock' = clock + 1
    /\ UNCHANGED <<aside, mailbox, store, wpc, backoff, responses, pushed, wLocals,
                   hLocals, history>>

\* The process terminates at any point and is started again: memory is lost,
\* the files stay, lines 157-158 reload the cursor.
Crash ==
    /\ epoch < MaxCrash
    /\ epoch' = epoch + 1
    /\ _last_seen' = LoadLastSeen(fs.canon)
    /\ _state_lock' = "free"
    /\ sv' = "none"
    /\ svState' = Absent
    /\ wpc' = "connecting"
    /\ backoff' = BackoffFloor
    /\ responses' = FALSE
    /\ pushed' = FALSE
    /\ wItems' = <<>> /\ wLastSeen' = None /\ wNew' = <<>> /\ wIdx' = 0
    /\ hcmd' = "none" /\ hpc' = "none" /\ hKey' = None /\ hItems' = {}
    /\ sent' = {}
    /\ sentOld' = sentOld \cup {e[1] : e \in {x \in sent : x[2] = "watcher"}}
    /\ initSeen' = {}
    /\ drained' = {}
    /\ UNCHANGED <<aside, world, fs>>

\* --------------------------------------------------------- _save_state
\* with _state_lock: _last_seen = k; _state_set_last_seen(k) up to open(tmp, "w")
BeginSave_NoLock(k, who) ==
    /\ _state_lock' = who
    /\ _last_seen' = k
    /\ svState' = StateDict(k)
    /\ fs' = FsOpenTmp(fs)
    /\ sv' = "opened"

BeginSave(k, who) ==
    /\ _state_lock = "free"
    /\ _state_lock' = who
    /\ _last_seen' = k
    /\ svState' = StateDict(k)
    /\ fs' = FsOpenTmp(fs)
    /\ sv' = "opened"

\* What the lock holder does once _save_state has returned.
AfterSave ==
    /\ sv' = "none"
    /\ svState' = Absent
    /\ _state_lock' = "free"
    /\ UNCHANGED <<aside, _last_seen, world, responses, pushed, sent, sentOld, epoch, initSeen>>
    /\ IF _state_lock = "watcher"
       THEN /\ UNCHANGED hLocals
            /\ IF wpc = "init_save"
               THEN /\ wpc' = "idle"
                    /\ backoff' = BackoffFloor
                    /\ UNCHANGED <<wLocals, drained>>
               ELSE IF wIdx < Len(wNew)
               THEN /\ wpc' = "dispatch"
                    /\ wIdx' = wIdx + 1
                    /\ UNCHANGED <<backoff, wItems, wLastSeen, wNew, drained>>
               ELSE /\ wpc' = "idle"
                    /\ drained' = Range(wItems)
                    /\ wItems' = <<>> /\ wLastSeen' = None /\ wNew' = <<>> /\ wIdx' = 0
                    /\ UNCHANGED backoff
       ELSE /\ IF hcmd = "reset_state"
               THEN hpc' = "answer_done" /\ hKey' = None /\ UNCHANGED <<hcmd, hItems>>
               ELSE hcmd' = "none" /\ hpc' = "none" /\ hKey' = None /\ hItems' = {}
            /\ UNCHANGED <<wpc, backoff, wLocals, drained>>

\* json.dump(state, f) and the close of the temp file
SaveDump ==
    /\ sv = "opened"
    /\ fs' = FsDump(fs, svState)
    /\ sv' = "written"
    /\ UNCHANGED <<aside, world, _last_seen, _state_lock, svState, wpc, backoff, responses,
                   pushed, wLocals, hLocals, history>>

\* os.replace(tmp, STATE_FILE)
SaveReplace ==
    /\ sv = "written"
    /\ fs' = FsReplace(fs)
    /\ AfterSave

\* except Exception: os.remove(tmp); the caller is not told
SaveFail ==
    /\ sv \in {"opened", "written"}
    /\ fs' = FsRemoveTmp(fs)
    /\ AfterSave

\* ------------------------------------------------- imap_idle_worker(loop)
WReset == wItems' = <<>> /\ wLastSeen' = None /\ wNew' = <<>> /\ wIdx' = 0

\* An exception leaves the with blocks (the session is closed, a lock held is
\* released) and reaches `except Exception as e` at line 520.
WExcept ==
    /\ wpc' = "notify"
    /\ pushed' = FALSE
    /\ WReset
    /\ UNCHANGED <<aside, world, backoff, responses, hLocals, history>>

WToBackoff == WExcept /\ UNCHANGED store

\* _state_set_last_seen raises out of _save_state: os.makedirs at line 121 stands
\* before the try. The assignment to _last_seen has been made, no file is
\* touched, the with block releases the lock.
SaveRaises(k) ==
    /\ _state_lock = "free"
    /\ _last_seen' = k
    /\ UNCHANGED <<_state_lock, fs, sv, svState>>

\* IMAPClient(...), c.login(...), _select_folder_smart(c)
WConnect ==
    /\ wpc = "connecting"
    /\ wpc' = "init"
    /\ UNCHANGED <<aside, world, store, backoff, responses, pushed, wLocals, hLocals, history>>

WConnectFail ==
    /\ wpc = "connecting"
    /\ WToBackoff

\* lines 470-478: with _state_lock: if _last_seen is None: ...; backoff = 5
\* The SEARCH and FETCH of _fetch_candidates take in the responses the server
\* owed the session: idle_check will not see them.
WInit ==
    /\ wpc = "init"
    /\ _state_lock = "free"
    /\ LET items == FetchCandidates(mailbox)
       IN IF _last_seen = None /\ items # <<>>
          THEN /\ BeginSave(Last(items), "watcher")
               /\ wpc' = "init_save"
               /\ initSeen' = Range(items)
               /\ UNCHANGED backoff
          ELSE /\ wpc' = "idle"
               /\ backoff' = BackoffFloor
               /\ UNCHANGED <<store, initSeen>>
    /\ pushed' = (pushed /\ _last_seen # None)
    /\ UNCHANGED <<aside, world, responses, wLocals, hLocals, sent, sentOld, epoch, drained>>

\* _fetch_candidates raises inside the with block; the lock is released
WInitFail ==
    /\ wpc = "init"
    /\ _state_lock = "free"
    /\ _last_seen = None
    /\ WToBackoff

\* line 476 raises: the cursor is set in memory and the worker goes to the
\* except clause
WInitSaveRaises ==
    /\ wpc = "init"
    /\ _last_seen = None
    /\ FetchCandidates(mailbox) # <<>>
    /\ SaveRaises(Last(FetchCandidates(mailbox)))
    /\ WExcept

\* lines 481-483: c.idle(); responses = c.idle_check(timeout=60 * 25); c.idle_done()
\* A pending push makes the result non-empty; any other untagged server
\* response does too; with neither the wait elapses and the result is empty.
WIdleCheck ==
    /\ wpc = "idle"
    /\ \E r \in BOOLEAN :
         /\ pushed => r
         /\ responses' = r
    /\ pushed' = FALSE
    /\ wpc' = "checked"
    /\ UNCHANGED <<aside, world, store, backoff, wLocals, hLocals, history>>

WIdleFail ==
    /\ wpc = "idle"
    /\ WToBackoff

\* lines 485-486: if not responses: continue
WBranch ==
    /\ wpc = "checked"
    /\ wpc' = IF responses THEN "fetch" ELSE "idle"
    /\ responses' = FALSE
    /\ UNCHANGED <<aside, world, store, backoff, pushed, wLocals, hLocals, history>>

\* lines 488-490: items = _fetch_candidates(c); if not items: continue
WFetch ==
    /\ wpc = "fetch"
    /\ LET items == FetchCandidates(mailbox)
       IN IF items = <<>>
          THEN wpc' = "idle" /\ UNCHANGED wItems
          ELSE wpc' = "filter" /\ wItems' = items
    /\ pushed' = FALSE
    /\ UNCHANGED <<aside, world, store, backoff, responses, wLastSeen, wNew, wIdx,
                   hLocals, history>>

WFetchFail ==
    /\ wpc = "fetch"
    /\ WToBackoff

\* lines 492-504: with _state_lock: last_seen = _last_seen; the filter loop over
\* items (a computation on locals and the clock); if not new_items: continue
WFilter ==
    /\ wpc = "filter"
    /\ _state_lock = "free"
    /\ LET new_items == FilterNew(wItems, _last_seen, clock)
       IN IF new_items = <<>>
          THEN wpc' = "idle" /\ WReset
          ELSE /\ wpc' = "dispatch"
               /\ wLastSeen' = _last_seen
               /\ wNew' = new_items
               /\ wIdx' = 1
               /\ UNCHANGED wItems
    /\ UNCHANGED <<aside, world, store, backoff, responses, pushed, hLocals, history>>

\* lines 507-514: parse, compose, asyncio.run_coroutine_threadsafe(send_to_targets(...))
WDispatch ==
    /\ wpc = "dispatch"
    /\ sent' = sent \cup {<<wNew[wIdx], "watcher">>}
    /\ wpc' = "advance"
    /\ UNCHANGED <<aside, world, store, backoff, responses, pushed, wLocals, hLocals,
                   sentOld, epoch, initSeen, drained>>

\* extract_parts, parse_kwork_email, compose_message or the hand-off to the
\* event loop raises: nothing is scheduled for delivery
WDispatchFail ==
    /\ wpc = "dispatch"
    /\ WToBackoff

\* lines 516-518: with _state_lock: _last_seen = (dt, uid); _state_set_last_seen(dt, uid)
WAdvance ==
    /\ wpc = "advance"
    /\ BeginSave(wNew[wIdx], "watcher")
    /\ wpc' = "advance_save"
    /\ UNCHANGED <<aside, world, backoff, responses, pushed, wLocals, hLocals, history>>

\* line 518 raises
WAdvanceSaveRaises ==
    /\ wpc = "advance"
    /\ SaveRaises(wNew[wIdx])
    /\ WExcept

\* lines 522-526: the warning for the operator is handed to the event loop
WNotify ==
    /\ wpc = "notify"
    /\ wpc' = "backoff"
    /\ UNCHANGED <<aside, world, store, backoff, responses, pushed, wLocals, hLocals, history>>

\* lines 527-528: the hand-off raises; except Exception: pass
WNotifyFail_Uncaught ==
    /\ wpc = "notify"
    /\ wpc' = "stopped"
    /\ UNCHANGED <<aside, world, store, backoff, responses, pushed, wLocals, hLocals, history>>

WNotifyFail ==
    /\ wpc = "notify"
    /\ wpc' = "backoff"
    /\ UNCHANGED <<aside, world, store, backoff, responses, pushed, wLocals, hLocals, history>>

\* lines 530-531: time.sleep(backoff); backoff = min(backoff * 2, 60)
WBackoff ==
    /\ wpc = "backoff"
    /\ backoff' = NextBackoff(backoff)
    /\ wpc' = "connecting"
    /\ UNCHANGED <<aside, world, store, responses, pushed, wLocals, hLocals, history>>

\* ------------------------------------------------------ command handlers
Commands == {"now", "now_force", "reset_state"}

HDone == hcmd' = "none" /\ hpc' = "none" /\ hKey' = None /\ hItems' = {}

\* The texts a handler answers with before it returns: "Не нашёл писем" (absent),
\* "слишком старое" (stale), "Новых писем пока нет" (nothing_new), "Ошибка"
\* (error), the report of /status (status), "Готово" of /reset_state (done).
Answers == {"answer_absent", "answer_stale", "answer_nothing_new", "answer_error",
            "answer_status", "answer_done"}

\* The handler goes on to `await m.answer(...)` with the text a.
HReply(a) == hpc' = a /\ hKey' = None /\ hItems' = {} /\ UNCHANGED hcmd

\* await m.answer(...); return
HAnswer ==
    /\ hpc \in Answers
    /\ HDone
    /\ UNCHANGED <<aside, world, store, wpc, backoff, responses, pushed, wLocals, history>>

\* /status, lines 562-574: with _state_lock: ls = _last_seen
HStatus ==
    /\ hcmd = "none"
    /\ _state_lock = "free"
    /\ hcmd' = "status"
    /\ hpc' = "answer_status"
    /\ UNCHANGED <<aside, world, store, wpc, backoff, responses, pushed, wLocals, hKey, hItems,
                   history>>

\* the dispatcher starts the handler; m.answer(...) is awaited
HStart ==
    /\ hcmd = "none"
    /\ \E cmd \in Commands : hcmd' = cmd
    /\ hpc' = "fetch"
    /\ UNCHANGED <<aside, world, store, wpc, backoff, responses, pushed, wLocals, hKey, hItems,
                   history>>

\* own session; items = _fetch_candidates(c); if not items: answer and return
HFetch_ForceChecked ==
    /\ hpc = "fetch"
    /\ LET items == FetchCandidates(mailbox)
       IN IF items = <<>>
          THEN HReply("answer_absent")
          ELSE /\ hKey' = Last(items)
               /\ hItems' = IF hcmd = "reset_state" THEN Range(items) ELSE {}
               /\ hpc' = IF hcmd = "reset_state" THEN "write" ELSE "check"
               /\ UNCHANGED hcmd
    /\ UNCHANGED <<aside, world, store, wpc, backoff, responses, pushed, wLocals, history>>

HFetch ==
    /\ hpc = "fetch"
    /\ LET items == FetchCandidates(mailbox)
       IN IF items = <<>>
          THEN HReply("answer_absent")
          ELSE /\ hKey' = Last(items)
               /\ hItems' = IF hcmd = "reset_state" THEN Range(items) ELSE {}
               /\ hpc' = CASE hcmd = "now" -> "check"
                           [] hcmd = "now_force" -> "send"
                           [] OTHER -> "write"
               /\ UNCHANGED hcmd
    /\ UNCHANGED <<aside, world, store, wpc, backoff, responses, pushed, wLocals, history>>

\* except Exception as e: m.answer(f"...{e}")
HFetchFail ==
    /\ hpc = "fetch"
    /\ HReply("answer_error")
    /\ UNCHANGED <<aside, world, store, wpc, backoff, responses, pushed, wLocals, history>>

\* /now, lines 596-613: if not _is_fresh(dt): answer and return; read _last_seen
\* under the lock; if (dt, uid) <= last_seen: answer and return
HCheck_CursorFirst ==
    /\ hpc = "check"
    /\ _state_lock = "free"
    /\ IF _last_seen # None /\ KeyLE(hKey, _last_seen)
       THEN HReply("answer_nothing_new")
       ELSE IF ~IsFresh(hKey[1], clock)
       THEN HReply("answer_stale")
       ELSE hpc' = "send" /\ UNCHANGED <<hcmd, hKey, hItems>>
    /\ UNCHANGED <<aside, world, store, wpc, backoff, responses, pushed, wLocals, history>>

HCheck ==
    /\ hpc = "check"
    /\ IF ~IsFresh(hKey[1], clock)
       THEN HReply("answer_stale")
       ELSE /\ _state_lock = "free"
            /\ IF _last_seen # None /\ KeyLE(hKey, _last_seen)
               THEN HReply("answer_nothing_new")
               ELSE hpc' = "send" /\ UNCHANGED <<hcmd, hKey, hItems>>
    /\ UNCHANGED <<aside, world, store, wpc, backoff, responses, pushed, wLocals, history>>

\* await send_to_targets(text, user_chat_id=m.chat.id, force_user=True)
HSend ==
    /\ hpc = "send"
    /\ sent' = IF hcmd = "now" THEN sent \cup {<<hKey, "now">>} ELSE sent
    /\ hpc' = "write"
    /\ UNCHANGED <<aside, world, store, wpc, backoff, responses, pushed, wLocals, hcmd, hKey,
                   hItems, sentOld, epoch, initSeen, drained>>

\* send_to_targets raises and the cursor is written all the same
HSendFail_WritesCursor ==
    /\ hpc = "send"
    /\ hpc' = "write"
    /\ UNCHANGED <<aside, world, store, wpc, backoff, responses, pushed, wLocals, hcmd, hKey,
                   hItems, history>>

\* send_to_targets raises at its first send, line 400: nothing was sent, the
\* handler goes to its except clause with dt and uid still bound, the cursor is
\* not written
HSendFail ==
    /\ hpc = "send"
    /\ hpc' = "answer_error"
    /\ UNCHANGED <<aside, world, store, wpc, backoff, responses, pushed, wLocals, hcmd, hKey,
                   hItems, history>>

\* with _state_lock: _last_seen = (dt, uid); _state_set_last_seen(dt, uid)
HWrite ==
    /\ hpc = "write"
    /\ BeginSave(hKey, "handler")
    /\ hpc' = "save"
    /\ UNCHANGED <<aside, world, wpc, backoff, responses, pushed, wLocals, hcmd, hKey, hItems,
                   history>>

\* _state_set_last_seen raises; except Exception as e: m.answer(f"...{e}")
HWriteSaveRaises ==
    /\ hpc = "write"
    /\ SaveRaises(hKey)
    /\ HReply("answer_error")
    /\ UNCHANGED <<aside, world, wpc, backoff, responses, pushed, wLocals, history>>

\* ------------------------------------------------------------ the system
\* The watcher thread, the command handlers and _save_state while the volume
\* of the state file takes every write.
Watcher ==
    \/ WConnect \/ WConnectFail \/ WInit \/ WInitFail
    \/ WIdleCheck \/ WIdleFail \/ WBranch \/ WFetch \/ WFetchFail \/ WFilter
    \/ WDispatch \/ WDispatchFail \/ WAdvance
    \/ WNotify \/ WNotifyFail \/ WBackoff

Handler ==
    \/ HStart \/ HStatus \/ HFetch \/ HFetchFail \/ HCheck \/ HSend \/ HSendFail
    \/ HWrite \/ HAnswer

Save == SaveDump \/ SaveReplace

\* A write of the state file fails: inside _save_state's try (swallowed), or at
\* os.makedirs (raised to the caller).
WDiskFails == SaveFail \/ WInitSaveRaises \/ WAdvanceSaveRaises

DiskFails == WDiskFails \/ HWriteSaveRaises

\* The running process: both contexts, the mailbox and the clock.
Next == Watcher \/ Handler \/ Save \/ Arrive \/ Tick

Spec == Init /\ [][Next]_vars

\* The process and its state file: writes may fail and the process may be
\* terminated and started again at any point; the clock stands still.
NextStore == Watcher \/ Handler \/ Save \/ DiskFails \/ Arrive \/ Crash

StoreSpec == Init /\ [][NextStore]_vars

\* Everything at once.
NextAll == Next \/ DiskFails \/ Crash

FullSpec == Init /\ [][NextAll]_vars

\* The watcher thread on its own, with nobody sending commands and no restart.
\* The thread is scheduled fairly: every step of its own that stays possible is
\* taken and a blocking call returns (idle_check after 25 minutes at the
\* latest). A call that can fail and is tried again and again succeeds in the
\* end: connecting, the fetches, IDLE, the writes of the state file. Nothing
\* obliges the server to send a response.
WatcherProgress ==
    WBranch \/ WFilter \/ WDispatch \/ WAdvance \/ WNotify \/ WNotifyFail \/ WBackoff

NextWatcher == Watcher \/ Save \/ WDiskFails \/ Arrive \/ Tick

FairSpec ==
    /\ Init /\ [][NextWatcher]_vars
    /\ WF_vars(WatcherProgress)
    /\ SF_vars(WConnect) /\ SF_vars(WInit) /\ SF_vars(WIdleCheck) /\ SF_vars(WFetch)
    /\ SF_vars(WDispatch) /\ SF_vars(WAdvance)
    /\ SF_vars(SaveDump) /\ SF_vars(SaveReplace)

\* ----------------------------------------------------------- properties
\* Lexicographic (timestamp, uid) order, written out.
Exceeds(a, b) == a[1] > b[1] \/ (a[1] = b[1] /\ a[2] > b[2])
SentKeys == {e[1] : e \in sent}

\* Steps of the program, recognised by what they change.
WatcherDispatches(k) == wpc = "dispatch" /\ wpc' = "advance" /\ wNew[wIdx] = k
NowDelivers(k) == hcmd = "now" /\ hpc = "send" /\ hpc' = "write" /\ hKey = k
WatcherInitializes == wpc = "init" /\ wpc' = "init_save"
WatcherFilters == wpc = "filter" /\ wpc' \in {"dispatch", "idle"}

\* C1: once the cursor is set, no write to it during the life of the process
\* stores a key below the previous one.
C1_CursorMonotone ==
    [][(_last_seen # None /\ epoch' = epoch)
         => (_last_seen' # None /\ ~Exceeds(_last_seen, _last_seen'))]_vars

\* C2: the watcher drain and /now together hand a message to delivery at most
\* once: a message handed over was not handed over before.
C2_NoDuplicate ==
    [][\A k \in mailbox :
         (WatcherDispatches(k) \/ NowDelivers(k)) => k \notin SentKeys]_vars

\* C3: initialization with cursor None and candidates present sets the cursor
\* to the newest candidate (and the state file, once the save has gone through),
\* dispatches nothing, and no candidate that existed then is dispatched by a
\* later drain.
C3_FirstRunSafety ==
    [][/\ WatcherInitializes =>
            /\ _last_seen' = Last(SortKeys(mailbox))
            /\ sent' = sent
       /\ (wpc = "init_save" /\ fs'.canon # fs.canon) =>
            /\ LoadLastSeen(fs'.canon) = _last_seen'
            /\ sent' = sent
       /\ \A k \in mailbox : WatcherDispatches(k) => k \notin initSeen]_vars

\* C4: a message the watcher dispatched before the process terminated is not
\* dispatched again by the watcher after the restart.
C4_NoRedispatchAfterCrash ==
    [][\A k \in mailbox : WatcherDispatches(k) => k \notin sentOld]_vars

\* C9: after every IDLE wait that returned, with or without a server
\* response, the watcher goes on to fetch the candidates.
C9_DrainAfterEveryWait ==
    [][(wpc = "checked" /\ wpc' # "checked" /\ epoch' = epoch) => wpc' = "fetch"]_vars

\* C5: whatever step of _save_state the process stops at, STATE_FILE holds the
\* complete content it held before or the complete content being saved; only
\* the temp file is ever partial.
CompleteContent(c) ==
    \/ c = Absent
    \/ c.kind = "json" /\ \E k \in mailbox : c = StateDict(k) /\ LoadLastSeen(c) = k

C5_AtomicPersistence ==
    /\ [](CompleteContent(fs.canon))
    /\ [][\/ fs'.canon = fs.canon
          \/ sv = "written" /\ fs'.canon = svState /\ CompleteContent(svState)]_vars

\* The process stopped between the temp-file write and the rename.
C5_Witness ==
    /\ epoch > 0
    /\ sv = "none"
    /\ fs.tmp.kind = "json"
    /\ fs.tmp # fs.canon

\* C6: the drain admits a candidate iff it is fresh and its key is strictly
\* above the cursor the drain read in lexicographic (timestamp, uid) order, or
\* that cursor is None; only admitted candidates are dispatched.
C6_CursorOrdering ==
    [][/\ WatcherFilters =>
            \A i \in 1..Len(wItems) :
               LET k == wItems[i]
               IN (k \in Range(wNew')) <=>
                     /\ clock - k[1] <= MAX_EMAIL_AGE_MINUTES
                     /\ (_last_seen = None \/ Exceeds(k, _last_seen))
       /\ \A k \in mailbox : WatcherDispatches(k) =>
            /\ k \in Range(wItems)
            /\ (wLastSeen = None \/ Exceeds(k, wLastSeen))]_vars

\* A drain that rejected the candidate equal to the cursor and admitted one with
\* the same timestamp and a larger uid.
C6_Witness ==
    /\ wpc = "dispatch"
    /\ wLastSeen # None
    /\ wLastSeen \in Range(wItems) \ Range(wNew)
    /\ \E k \in Range(wNew) : k[1] = wLastSeen[1] /\ k[2] > wLastSeen[2]

\* C7: a drain presented with the candidate set of a drain that ran to its end,
\* with the cursor at or above every key of the set, admits nothing and
\* leaves the cursor as it is.
ReplayOfDrained ==
    /\ wpc = "filter"
    /\ drained # {}
    /\ Range(wItems) = drained
    /\ _last_seen # None
    /\ \A k \in drained : ~Exceeds(k, _last_seen)

C7_Idempotence ==
    [][(ReplayOfDrained /\ WatcherFilters) =>
          /\ wpc' = "idle"
          /\ wNew' = <<>>
          /\ _last_seen' = _last_seen
          /\ sent' = sent]_vars

C7_Witness == ReplayOfDrained /\ _state_lock = "free"

\* C8: a candidate timestamped exactly now - MAX_EMAIL_AGE_MINUTES passes the
\* freshness check of the drain and of /now (what happens to it then depends on
\* the cursor alone); one a minute older is rejected by both.
AtBoundary(k) == k[1] = clock - MAX_EMAIL_AGE_MINUTES
MinuteOlder(k) == k[1] = clock - MAX_EMAIL_AGE_MINUTES - 1

C8_FreshnessBoundary ==
    [][/\ WatcherFilters =>
            \A i \in 1..Len(wItems) :
               LET k == wItems[i]
               IN /\ AtBoundary(k) =>
                       ((k \in Range(wNew')) <=>
                           (_last_seen = None \/ Exceeds(k, _last_seen)))
                  /\ MinuteOlder(k) => k \notin Range(wNew')
       /\ (hpc = "check" /\ hpc' # "check" /\ epoch' = epoch) =>
            /\ AtBoundary(hKey) =>
                  ((hpc' = "send") <=> (_last_seen = None \/ Exceeds(hKey, _last_seen)))
            /\ MinuteOlder(hKey) => (hpc' = "answer_stale" /\ sent' = sent)]_vars

\* A drain that admitted a candidate at the boundary and rejected one a minute
\* older, although no cursor stood in its way.
C8_Witness ==
    /\ wpc = "dispatch"
    /\ wLastSeen = None
    /\ \E k \in Range(wNew) : AtBoundary(k)
    /\ \E k \in Range(wItems) \ Range(wNew) : MinuteOlder(k)

\* C10: a message that arrives after the cursor was initialized and stays
\* fresh (it is within the last FetchTail matches throughout) is eventually
\* handed to delivery, wherever the watcher was when it arrived.
ArrivedAfterInit(k) ==
    /\ initSeen # {}
    /\ k \in mailbox \ initSeen
    /\ k[1] >= StartClock

C10_NoLoss ==
    \A u \in 1..MaxMsgs :
        (\E k \in mailbox : k[2] = u /\ ArrivedAfterInit(k))
            ~> (\E k \in SentKeys : k[2] = u)

\* C11: the watcher sleeps 5, 10, 20, 40 or 60 seconds; each sleep is followed
\* by the doubling capped at 60; and the backoff goes back to 5 only at the
\* end of a drain, that is once connect, wait and drain have all succeeded.
DrainCompletes == wpc \in {"fetch", "filter", "advance_save"} /\ wpc' = "idle"

C11_Backoff ==
    /\ [](wpc = "backoff" => backoff \in {5, 10, 20, 40, 60})
    /\ [][(wpc = "backoff" /\ wpc' = "connecting" /\ epoch' = epoch) =>
             backoff' = (IF backoff * 2 > 60 THEN 60 ELSE backoff * 2)]_vars
    /\ [][(backoff # 5 /\ backoff' = 5 /\ epoch' = epoch) => DrainCompletes]_vars

\* C12: the worker is always at one of the positions of its loop; wherever an
\* exception is raised (connecting, cursor initialization, wait, drain, state
\* save) the worker goes to the except clause, from there to the sleep whether
\* or not the warning could be handed over, and from the sleep back to
\* connecting; it does not hold _state_lock on that way.
WatcherPositions ==
    {"connecting", "init", "init_save", "idle", "checked", "fetch", "filter",
     "dispatch", "advance", "advance_save", "notify", "backoff"}

C12_NeverStops ==
    /\ [](wpc \in WatcherPositions)
    /\ [](wpc \in {"notify", "backoff", "connecting"} => _state_lock # "watcher")
    /\ [][(wpc = "notify" /\ wpc' # wpc /\ epoch' = epoch) => wpc' = "backoff"]_vars
    /\ [][(wpc = "backoff" /\ wpc' # wpc /\ epoch' = epoch) => wpc' = "connecting"]_vars
    /\ (wpc = "notify") ~> (wpc = "backoff")
    /\ (wpc = "backoff") ~> (wpc = "connecting")

\* The worker is connecting again after an exception that followed a
\* dispatch of this run.
C12_Witness ==
    /\ wpc = "connecting"
    /\ backoff > BackoffFloor
    /\ sent # {}
    /\ _state_lock = "free"

\* The newest of a set of keys in (timestamp, uid) order.
IsNewest(k, S) == k \in S /\ \A j \in S : ~Exceeds(j, k)

\* A step of the handler that is not the way into its except clause.
HStepFrom(pos) == hpc = pos /\ hpc' \notin {pos, "answer_error"} /\ epoch' = epoch

\* C13: /now tests in this order, on the newest candidate only: no candidate
\* (answers "absent"), candidate older than the window ("stale"), key not above
\* the cursor ("nothing new"); else it delivers the candidate and then writes
\* its key to the cursor. The three answers deliver nothing and leave the
\* cursor as it is.
C13_CheckAndDeliver ==
    [][hcmd = "now" =>
         /\ HStepFrom("fetch") =>
               /\ IF TailUids(mailbox) = {} THEN hpc' = "answer_absent"
                  ELSE hpc' = "check" /\ IsNewest(hKey', TailUids(mailbox))
               /\ sent' = sent /\ _last_seen' = _last_seen
         /\ HStepFrom("check") =>
               /\ hpc' = (IF clock - hKey[1] > MAX_EMAIL_AGE_MINUTES THEN "answer_stale"
                          ELSE IF _last_seen # None /\ ~Exceeds(hKey, _last_seen)
                          THEN "answer_nothing_new"
                          ELSE "send")
               /\ sent' = sent /\ _last_seen' = _last_seen
         /\ HStepFrom("send") =>
               /\ hpc' = "write" /\ hKey' = hKey
               /\ sent' = sent \cup {<<hKey, "now">>}
               /\ _last_seen' = _last_seen
         /\ HStepFrom("write") => _last_seen' = hKey /\ sent' = sent
         /\ \A a \in {"answer_absent", "answer_stale", "answer_nothing_new"} :
               HStepFrom(a) => hpc' = "none" /\ sent' = sent /\ _last_seen' = _last_seen]_vars

\* /now answers "stale" for a newest candidate that is also not above the cursor.
C13_Witness ==
    /\ hcmd = "now"
    /\ hpc = "answer_stale"
    /\ _last_seen # None
    /\ \E k \in mailbox :
         /\ IsNewest(k, mailbox)
         /\ clock - k[1] > MAX_EMAIL_AGE_MINUTES
         /\ ~Exceeds(k, _last_seen)

\* C14: /now_force with at least one candidate delivers the newest one and
\* writes its key to the cursor, whatever its age and whatever the cursor;
\* with no candidate it delivers nothing and leaves the cursor as it is.
C14_ForceDeliver ==
    [][hcmd = "now_force" =>
         /\ hpc # "check"
         /\ HStepFrom("fetch") =>
               /\ IF TailUids(mailbox) = {} THEN hpc' = "answer_absent"
                  ELSE hpc' = "send" /\ IsNewest(hKey', TailUids(mailbox))
               /\ _last_seen' = _last_seen
         /\ HStepFrom("send") => hpc' = "write" /\ hKey' = hKey /\ _last_seen' = _last_seen
         /\ HStepFrom("write") => hpc' = "save" /\ _last_seen' = hKey
         /\ HStepFrom("answer_absent") => hpc' = "none" /\ _last_seen' = _last_seen]_vars

\* /now_force has delivered a candidate older than the window and not above
\* the persisted cursor, and is writing its key.
C14_Witness ==
    /\ hcmd = "now_force"
    /\ hpc = "save"
    /\ _last_seen = hKey
    /\ clock - hKey[1] > MAX_EMAIL_AGE_MINUTES
    /\ LoadLastSeen(fs.canon) # None
    /\ ~Exceeds(hKey, LoadLastSeen(fs.canon))

\* C15: /reset_state with at least one candidate writes the key of the newest
\* one to the cursor and delivers nothing; a watcher drain presented with the
\* same candidate set once the write is done admits nothing. With no
\* candidate the cursor stays as it is.
C15_Reset ==
    [][/\ hcmd = "reset_state" =>
            /\ hpc # "send"
            /\ HStepFrom("fetch") =>
                  /\ IF TailUids(mailbox) = {} THEN hpc' = "answer_absent"
                     ELSE hpc' = "write" /\ IsNewest(hKey', TailUids(mailbox))
                  /\ sent' = sent /\ _last_seen' = _last_seen
            /\ HStepFrom("write") => hpc' = "save" /\ _last_seen' = hKey /\ sent' = sent
            /\ HStepFrom("answer_absent") => hpc' = "none" /\ _last_seen' = _last_seen
       /\ (WatcherFilters /\ hpc = "answer_done" /\ Range(wItems) = hItems) =>
            wNew' = <<>>]_vars

\* C19: the watcher and the handlers are never inside a `with _state_lock`
\* block at the same time; _last_seen is assigned and read, and the state
\* files are written, only by the context that has the lock.
WatcherInLock == wpc \in {"init_save", "advance_save"}
HandlerInLock == hpc = "save"

C19_LockDiscipline ==
    /\ [](~(WatcherInLock /\ HandlerInLock))
    /\ [](WatcherInLock <=> _state_lock = "watcher")
    /\ [](HandlerInLock <=> _state_lock = "handler")
    /\ [](sv # "none" => _state_lock # "free")
    /\ [][(_last_seen' # _last_seen /\ epoch' = epoch) => _state_lock = "free"]_vars
    /\ [][(fs' # fs) =>
             \/ _state_lock = "free" /\ _state_lock' # "free"
             \/ _state_lock # "free" /\ _state_lock' \in {_state_lock, "free"}]_vars
    /\ [][(epoch' = epoch /\ (\/ WatcherFilters
                              \/ wpc = "init" /\ wpc' # "init"
                              \/ hpc = "check" /\ hpc' \in {"send", "answer_nothing_new"}
                              \/ hcmd = "none" /\ hcmd' = "status"))
             => _state_lock = "free"]_vars

\* The handler is inside its write of the cursor while the watcher stands
\* before its own.
C19_Witness ==
    /\ _state_lock = "handler"
    /\ sv = "written"
    /\ wpc = "advance"

\* C16: loading the cursor from a state file that is absent, unreadable, not
\* JSON, JSON but not an object, or an object whose last_dt_iso or last_uid is
\* missing or malformed, gives the cursor None and raises nothing.
WellFormedState(c) ==
    /\ c.kind = "json"
    /\ c.last_dt_iso.t = "str"
    /\ c.last_dt_iso.v # <<>>
    /\ \A n \in 1..Len(c.last_dt_iso.v) : c.last_dt_iso.v[n] # NotADigit
    /\ \/ c.last_uid.t = "num"
       \/ /\ c.last_uid.t = "str"
          /\ c.last_uid.v # <<>>
          /\ \A n \in 1..Len(c.last_uid.v) : c.last_uid.v[n] # NotADigit

C16_FailSoft ==
    [][(boot = "import" /\ boot' # "import" /\ ~WellFormedState(fs.canon)) =>
          (boot' = "running" /\ _last_seen' = None)]_vars

\* C20: whenever nobody holds _state_lock, the state file holds the cursor
\* that is in memory.
C20_FlushedCursor == _state_lock = "free" => LoadLastSeen(fs.canon) = _last_seen

\* C17: a record is emitted for a title line only if the next line holds a ">"
\* and a price line was found after it; parsing a text with no price line does
\* not raise, it yields zero records and compose_message gives the notice.
NoPriceLine == \A n \in 1..Len(parts.lines) : parts.lines[n] # "price"

RecordsComplete ==
    \A n \in 1..Len(projects) :
        LET p == projects[n]
        IN /\ p.category = p.title + 1
           /\ p.category <= Len(parts.lines)
           /\ parts.lines[p.category] \in {"cat", "junk_gt"}
           /\ p.price \in (p.title + 1)..Len(parts.lines)
           /\ parts.lines[p.price] = "price"

NoPriceNoRecords ==
    (NoPriceLine /\ ppc = "done") => (projects = <<>> /\ message = "notice")

C17_MalformedInput ==
    /\ RecordsComplete
    /\ NoPriceLine => ppc # "raised"
    /\ NoPriceNoRecords

\* C18: with k extracted links and n records, record i carries the i-th link
\* for i <= min(k, n) and the records after the k-th carry no url; the links
\* are the project links of kwork.ru among the <a> tags, each once, in the
\* order of their first occurrence; the records are in the order of their
\* title lines.
LinksExtracted ==
    /\ \A n \in 1..Len(links) : links[n].kwork /\ links[n].project
    /\ \A a \in 1..Len(anchors) :
           (anchors[a].kwork /\ anchors[a].project) =>
               \E n \in 1..Len(links) : links[n] = anchors[a]
    /\ \A m, n \in 1..Len(links) :
           m < n =>
               \E a \in 1..Len(anchors) :
                   /\ anchors[a] = links[m]
                   /\ \A b \in 1..Len(anchors) : anchors[b] = links[n] => a < b

C18_PositionalLinks ==
    /\ ppc \in {"compose", "done"} =>
           /\ LinksExtracted
           /\ \A i \in 1..Len(projects) :
                  IF parts.html /\ i <= Len(links)
                  THEN projects[i].url = <<links[i]>>
                  ELSE projects[i].url = <<>>
    /\ \A i, j \in 1..Len(projects) : i < j => projects[i].title < projects[j].title

C18_Witness ==
    /\ ppc = "done"
    /\ Len(links) = 2
    /\ Len(projects) = 3
    /\ projects[1].url = <<links[1]>>
    /\ projects[2].url = <<links[2]>>
    /\ projects[3].url = <<>>

\* C21: every iteration of the scan moves the index forward; a title with no
\* price line in its window is left behind by one line and gives no record; so
\* every line that is not inside an emitted record and that starts a complete
\* record (a ">" on the next line, a price line in its window) is emitted, also
\* when it lies in the window of a discarded title; and parse_from_text ends.
InWindow(t, j) == t < j /\ j <= t + ScanWindow - 1 /\ j <= Len(parts.lines)

NoPriceInWindow(t) == \A j \in 1..Len(parts.lines) : InWindow(t, j) => parts.lines[j] # "price"

StartsRecord(t) ==
    /\ parts.lines[t] \in {"text", "cat", "price"}
    /\ t + 1 <= Len(parts.lines)
    /\ parts.lines[t + 1] \in {"cat", "junk_gt"}
    /\ ~NoPriceInWindow(t)

InsideRecord(t) == \E n \in 1..Len(projects) : projects[n].title < t /\ t <= projects[n].price

Emitted(t) == \E n \in 1..Len(projects) : projects[n].title = t

C21_ForwardProgress ==
    /\ [][(ppc = "scan" /\ ppc' = "scan") => scan' > scan]_vars
    /\ [][(ppc = "scan" /\ ppc' = "scan" /\ NoPriceInWindow(scan)) =>
             (scan' = scan + 1 /\ projects' = projects)]_vars
    /\ [](ppc \in {"links", "compose", "done"} =>
             \A t \in 1..Len(parts.lines) :
                 (StartsRecord(t) /\ ~InsideRecord(t)) => Emitted(t))
    /\ <>(ppc \notin {"header", "scan"})

C21_Witness ==
    /\ ppc = "done"
    /\ \E t \in 1..Len(parts.lines) :
          /\ parts.lines[t] = "text"
          /\ NoPriceInWindow(t)
          /\ ~Emitted(t)
          /\ \E n \in 1..Len(projects) :
                 /\ InWindow(t, projects[n].title)
                 /\ ~InWindow(t, projects[n].price)

\* C22: /now comes to its cursor write only from a delivery that returned, and
\* takes the lock for a write only there; when the delivery raises, the step
\* into the except clause and the answer that follows leave the cursor in
\* memory and the state file as they are, so a message a /now or a drain would
\* admit before these steps is admitted after them.
Admitted(k) ==
    /\ k \in TailUids(mailbox)
    /\ clock - k[1] <= MAX_EMAIL_AGE_MINUTES
    /\ _last_seen = None \/ Exceeds(k, _last_seen)

C22_CursorAfterDelivery ==
    [][(hcmd = "now" /\ epoch' = epoch) =>
         /\ (hpc # "write" /\ hpc' = "write") =>
                (hpc = "send" /\ <<hKey, "now">> \in sent')
         /\ (_state_lock # "handler" /\ _state_lock' = "handler") => hpc = "write"
         /\ (hpc = "send" /\ hpc' # "send") => hpc' \in {"write", "answer_error"}
         /\ (hpc = "send" /\ hpc' = "answer_error") =>
                /\ _last_seen' = _last_seen /\ fs' = fs /\ sent' = sent /\ hKey' = hKey
                /\ \A k \in mailbox : Admitted(k) => Admitted(k)'
         /\ (hpc = "answer_error" /\ hKey # None /\ hpc' = "none") =>
                /\ _last_seen' = _last_seen /\ fs' = fs /\ sent' = sent
                /\ \A k \in mailbox : Admitted(k) => Admitted(k)']_vars

\* /now is in its except clause after a delivery that raised, and its message
\* is still one a /now or a drain admits.
C22_Witness ==
    /\ hcmd = "now"
    /\ hpc = "answer_error"
    /\ hKey # None
    /\ Admitted(hKey)
    /\ <<hKey, "now">> \notin sent


====
